---------------------------- MODULE Spec2Model ----------------------------
(***************************************************************************)
(* A model of Dom (src/Dom.ts): a static helper class whose methods are    *)
(* thin wrappers around the host document.  The host state the methods     *)
(* read and write (inline display style, content, form-control value,      *)
(* inner HTML, checked/disabled flags, attributes, class lists, the        *)
(* element tree) is the state of the model; every public method the claims *)
(* are about is one action.  History variables (call, ret, pre, ...)        *)
(* record the last call so that properties about calls can be stated.      *)
(***************************************************************************)
EXTENDS Integers, Sequences, FiniteSets

VARIABLES
    tag,            \* element -> tag name (fixed after construction)
    styleDisplay,   \* element -> element.style.display
    elValue,        \* element -> element.value (form controls)
    innerHTML,      \* element -> element.innerHTML, the serialised content
    elChecked,      \* element -> element.checked
    elDisabled,     \* element -> element.disabled
    attributes,     \* element -> attribute name -> what getAttribute returns
    classList,      \* element -> DOMTokenList, an ordered duplicate-free list
    children,       \* node -> ordered list of child elements (the tree)
    call,           \* history: the last call, its name and arguments
    ret,            \* the value the last call returned
    pre,            \* history: the host state before the last call
    prev,           \* history: name and element of the call before the last
    repeat,         \* history: the last call repeats the call before it
    named,          \* history: element -> class -> last kind of call naming it
    initial,        \* history: the class lists at construction
    snap            \* history: the last array a lookup returned, and the matches then

host == <<tag, styleDisplay, elValue, innerHTML, elChecked,
          elDisabled, attributes, classList, children>>
vars == <<tag, styleDisplay, elValue, innerHTML, elChecked,
          elDisabled, attributes, classList, children,
          call, ret, pre, prev, repeat, named, initial, snap>>

-----------------------------------------------------------------------------
(* Bounds of the model.                                                    *)

\* longest variadic class-name list passed to addClass/removeClass/ensureClass
MaxArgs == 2
\* numbers 0..MaxNumber are passed as `any` arguments
MaxNumber == 1
\* child is called with the indexes -1..MaxIndex
MaxIndex == 2

-----------------------------------------------------------------------------
(* JavaScript values.                                                      *)

Undefined == [k |-> "undefined"]
Null      == [k |-> "null"]
Bool(b)   == [k |-> "boolean", b |-> b]
Num(n)    == [k |-> "number", n |-> n]
Str(s)    == [k |-> "string", s |-> s]

\* typeof x
TypeOf(x) == IF x.k = "null" THEN "object" ELSE x.k

Digit(d) == CASE d = 0 -> "0" [] d = 1 -> "1" [] d = 2 -> "2" [] d = 3 -> "3"
              [] d = 4 -> "4" [] d = 5 -> "5" [] d = 6 -> "6" [] d = 7 -> "7"
              [] d = 8 -> "8" [] d = 9 -> "9"

RECURSIVE NatToString(_)
NatToString(n) == IF n < 10 THEN Digit(n)
                  ELSE NatToString(n \div 10) \o Digit(n % 10)

\* String(x)
String(x) ==
    CASE x.k = "undefined" -> "undefined"
      [] x.k = "null"      -> "null"
      [] x.k = "boolean"   -> IF x.b THEN "true" ELSE "false"
      [] x.k = "number"    -> IF x.n < 0 THEN "-" \o NatToString(-x.n)
                              ELSE NatToString(x.n)
      [] x.k = "string"    -> x.s

-----------------------------------------------------------------------------
(* The elements and the inputs the calls are drawn from.                   *)

Elems == {"e1", "e2", "e3"}
Doc   == "document"
Nodes == Elems \cup {Doc}

ClassNames == {"a", "b", "c"}
CallElems == {"e1", "e2"}

RECURSIVE SeqsUpTo(_, _)
SeqsUpTo(S, n) == IF n = 0 THEN {<<>>}
                  ELSE LET shorter == SeqsUpTo(S, n - 1)
                       IN  shorter \cup
                           {Append(s, x) : s \in {t \in shorter : Len(t) = n - 1}, x \in S}

ClassArgs == SeqsUpTo(ClassNames, MaxArgs)

SetOf(s) == {s[i] : i \in 1..Len(s)}

NoDup(s) == \A i, j \in 1..Len(s) : i # j => s[i] # s[j]

-----------------------------------------------------------------------------
(* The host's DOMTokenList (element.classList): an ordered set of tokens.  *)

TokenContains(list, token) == token \in SetOf(list)

\* classList.add(...tokens): append each token that is not yet in the list
RECURSIVE TokenAdd(_, _)
TokenAdd(list, tokens) ==
    IF tokens = <<>> THEN list
    ELSE TokenAdd(IF TokenContains(list, Head(tokens)) THEN list
                  ELSE Append(list, Head(tokens)),
                  Tail(tokens))

\* classList.remove(...tokens): drop every listed token
TokenRemove(list, tokens) == SelectSeq(list, LAMBDA t : t \notin SetOf(tokens))

-----------------------------------------------------------------------------
(* The host state as one value, for the history variable pre.              *)

Host == [tag |-> tag, styleDisplay |-> styleDisplay,
         elValue |-> elValue, innerHTML |-> innerHTML, elChecked |-> elChecked,
         elDisabled |-> elDisabled, attributes |-> attributes,
         classList |-> classList, children |-> children]

-----------------------------------------------------------------------------
(* Class list mutation (Dom.ts 139-189).  Each method is void.             *)

\* ensureClass with the two branches exchanged
ensureClassInverted(element, cond, className) ==
    /\ classList' = [classList EXCEPT ![element] =
                        IF cond THEN TokenRemove(@, className)
                        ELSE TokenAdd(@, className)]
    /\ ret' = Undefined
    /\ UNCHANGED <<tag, styleDisplay, elValue, innerHTML,
                   elChecked, elDisabled, attributes, children>>

ensureClass(element, cond, className) ==
    /\ classList' = [classList EXCEPT ![element] =
                        IF cond THEN TokenAdd(@, className)
                        ELSE TokenRemove(@, className)]
    /\ ret' = Undefined
    /\ UNCHANGED <<tag, styleDisplay, elValue, innerHTML,
                   elChecked, elDisabled, attributes, children>>

addClass(element, className) ==
    /\ classList' = [classList EXCEPT ![element] = TokenAdd(@, className)]
    /\ ret' = Undefined
    /\ UNCHANGED <<tag, styleDisplay, elValue, innerHTML,
                   elChecked, elDisabled, attributes, children>>

removeClass(element, className) ==
    /\ classList' = [classList EXCEPT ![element] = TokenRemove(@, className)]
    /\ ret' = Undefined
    /\ UNCHANGED <<tag, styleDisplay, elValue, innerHTML,
                   elChecked, elDisabled, attributes, children>>

\* swapClass with its two statements in the other order
swapClassAddFirst(element, classToRemove, classToAdd) ==
    /\ classList' = [classList EXCEPT ![element] =
                        TokenRemove(TokenAdd(@, <<classToAdd>>), <<classToRemove>>)]
    /\ ret' = Undefined
    /\ UNCHANGED <<tag, styleDisplay, elValue, innerHTML,
                   elChecked, elDisabled, attributes, children>>

swapClass(element, classToRemove, classToAdd) ==
    /\ classList' = [classList EXCEPT ![element] =
                        TokenAdd(TokenRemove(@, <<classToRemove>>), <<classToAdd>>)]
    /\ ret' = Undefined
    /\ UNCHANGED <<tag, styleDisplay, elValue, innerHTML,
                   elChecked, elDisabled, attributes, children>>

\* toggleClass without the contains test
toggleClassAlwaysAdds(element, className) ==
    /\ classList' = [classList EXCEPT ![element] = TokenAdd(@, <<className>>)]
    /\ ret' = Undefined
    /\ UNCHANGED <<tag, styleDisplay, elValue, innerHTML,
                   elChecked, elDisabled, attributes, children>>

toggleClass(element, className) ==
    /\ classList' = [classList EXCEPT ![element] =
                        IF TokenContains(@, className)
                        THEN TokenRemove(@, <<className>>)
                        ELSE TokenAdd(@, <<className>>)]
    /\ ret' = Undefined
    /\ UNCHANGED <<tag, styleDisplay, elValue, innerHTML,
                   elChecked, elDisabled, attributes, children>>

-----------------------------------------------------------------------------
(* Visibility control (Dom.ts 73-95).                                      *)

show(element) ==
    /\ styleDisplay' = [styleDisplay EXCEPT ![element] = "block"]
    /\ ret' = Undefined
    /\ UNCHANGED <<tag, elValue, innerHTML, elChecked, elDisabled,
                   attributes, classList, children>>

hide(element) ==
    /\ styleDisplay' = [styleDisplay EXCEPT ![element] = "none"]
    /\ ret' = Undefined
    /\ UNCHANGED <<tag, elValue, innerHTML, elChecked, elDisabled,
                   attributes, classList, children>>

\* visible returning display === "block" instead of display !== "none"
visibleOnlyBlock(element, isVisible) ==
    /\ styleDisplay' = IF TypeOf(isVisible) = "boolean"
                       THEN [styleDisplay EXCEPT ![element] =
                                IF isVisible.b THEN "block" ELSE "none"]
                       ELSE styleDisplay
    /\ ret' = Bool(styleDisplay'[element] = "block")
    /\ UNCHANGED <<tag, elValue, innerHTML, elChecked, elDisabled,
                   attributes, classList, children>>

visible(element, isVisible) ==
    /\ styleDisplay' = IF TypeOf(isVisible) = "boolean"
                       THEN [styleDisplay EXCEPT ![element] =
                                IF isVisible.b THEN "block" ELSE "none"]
                       ELSE styleDisplay
    /\ ret' = Bool(styleDisplay'[element] # "none")
    /\ UNCHANGED <<tag, elValue, innerHTML, elChecked, elDisabled,
                   attributes, classList, children>>

-----------------------------------------------------------------------------
(* The host behind the content and value accessors.                        *)

\* x is falsy: the left operand of || for which the right one is taken
Falsy(x) ==
    CASE x.k = "undefined" -> TRUE
      [] x.k = "null"      -> TRUE
      [] x.k = "boolean"   -> ~x.b
      [] x.k = "number"    -> x.n = 0
      [] x.k = "string"    -> x.s = ""

\* x || y
Or(x, y) == IF Falsy(x) THEN y ELSE x

\* The strings of the model are plain text, except for the fragment "<b>x"
\* and what the host makes of it.  Setting innerHTML parses the string and
\* the getter serialises the result: the open element gets its end tag.
ParseSerialize(html) == CASE html = "<b>x" -> "<b>x</b>" [] OTHER -> html

\* Setting textContent replaces the content by one text node, which
\* serialises with its markup characters escaped.
EscapeText(s) ==
    CASE s = "<b>x"     -> "&lt;b&gt;x"
      [] s = "<b>x</b>" -> "&lt;b&gt;x&lt;/b&gt;"
      [] OTHER          -> s

\* The text of serialised content: the concatenated text nodes.
TextOf(markup) ==
    CASE markup = "<b>x</b>"                 -> "x"
      [] markup = "&lt;b&gt;x"               -> "<b>x"
      [] markup = "&lt;b&gt;x&lt;/b&gt;"     -> "<b>x</b>"
      [] OTHER                               -> markup

\* element.textContent
TextContent(element) == Str(TextOf(innerHTML[element]))

\* the options of the document's select element
SelectOptions == {"a", "b"}

\* What element.value holds after `element.value = s`: a select takes the
\* value of the option it selects, or "" when no option has the value.
ValueAfterSet(element, s) ==
    IF tag[element] = "select"
    THEN IF s \in SelectOptions THEN s ELSE ""
    ELSE s

\* element.getAttribute(name): null when the element has no such attribute
GetAttribute(element, name) == attributes[element][name]

-----------------------------------------------------------------------------
(* Content and value accessors (Dom.ts 97-137, 171-179).  The value of an  *)
(* assignment expression is the value assigned, not a read of the target.  *)

\* text testing the truthiness of its argument instead of typeof
textTruthy(element, newText) ==
    /\ IF Falsy(newText)
       THEN /\ ret' = Or(TextContent(element), Str(""))
            /\ UNCHANGED innerHTML
       ELSE /\ innerHTML' = [innerHTML EXCEPT ![element] = EscapeText(String(newText))]
            /\ ret' = Str(String(newText))
    /\ UNCHANGED <<tag, styleDisplay, elValue, elChecked, elDisabled,
                   attributes, classList, children>>

\* text assigning its argument without String(): the host makes a string of
\* it (null becomes ""), and the call returns the argument itself
textNoString(element, newText) ==
    /\ IF TypeOf(newText) = "undefined"
       THEN /\ ret' = Or(TextContent(element), Str(""))
            /\ UNCHANGED innerHTML
       ELSE /\ innerHTML' = [innerHTML EXCEPT ![element] =
                                IF newText.k = "null" THEN "" ELSE EscapeText(String(newText))]
            /\ ret' = newText
    /\ UNCHANGED <<tag, styleDisplay, elValue, elChecked, elDisabled,
                   attributes, classList, children>>

text(element, newText) ==
    /\ IF TypeOf(newText) = "undefined"
       THEN /\ ret' = Or(TextContent(element), Str(""))
            /\ UNCHANGED innerHTML
       ELSE /\ innerHTML' = [innerHTML EXCEPT ![element] = EscapeText(String(newText))]
            /\ ret' = Str(String(newText))
    /\ UNCHANGED <<tag, styleDisplay, elValue, elChecked, elDisabled,
                   attributes, classList, children>>

value(element, newValue) ==
    /\ IF TypeOf(newValue) = "undefined"
       THEN /\ ret' = Str(elValue[element])
            /\ UNCHANGED elValue
       ELSE /\ elValue' = [elValue EXCEPT ![element] = ValueAfterSet(element, String(newValue))]
            /\ ret' = Str(String(newValue))
    /\ UNCHANGED <<tag, styleDisplay, innerHTML, elChecked, elDisabled,
                   attributes, classList, children>>

innerHtml(element, html) ==
    /\ IF TypeOf(html) = "string"
       THEN /\ innerHTML' = [innerHTML EXCEPT ![element] = ParseSerialize(html.s)]
            /\ ret' = html
       ELSE /\ ret' = Str(innerHTML[element])
            /\ UNCHANGED innerHTML
    /\ UNCHANGED <<tag, styleDisplay, elValue, elChecked, elDisabled,
                   attributes, classList, children>>

checked(element, isChecked) ==
    /\ IF TypeOf(isChecked) = "boolean"
       THEN /\ elChecked' = [elChecked EXCEPT ![element] = isChecked.b]
            /\ ret' = isChecked
       ELSE /\ ret' = Bool(elChecked[element])
            /\ UNCHANGED elChecked
    /\ UNCHANGED <<tag, styleDisplay, elValue, innerHTML, elDisabled,
                   attributes, classList, children>>

disabled(element, isDisabled) ==
    /\ IF TypeOf(isDisabled) = "boolean"
       THEN /\ elDisabled' = [elDisabled EXCEPT ![element] = isDisabled.b]
            /\ ret' = isDisabled
       ELSE /\ ret' = Bool(elDisabled[element])
            /\ UNCHANGED elDisabled
    /\ UNCHANGED <<tag, styleDisplay, elValue, innerHTML, elChecked,
                   attributes, classList, children>>

\* attribute returning getAttribute's result without the || ""
attributeNoDefault(element, name, newValue) ==
    /\ attributes' = IF TypeOf(newValue) = "string"
                     THEN [attributes EXCEPT ![element][name] = newValue]
                     ELSE attributes
    /\ ret' = attributes'[element][name]
    /\ UNCHANGED <<tag, styleDisplay, elValue, innerHTML, elChecked,
                   elDisabled, classList, children>>

attribute(element, name, newValue) ==
    /\ attributes' = IF TypeOf(newValue) = "string"
                     THEN [attributes EXCEPT ![element][name] = newValue]
                     ELSE attributes
    /\ ret' = Or(attributes'[element][name], Str(""))
    /\ UNCHANGED <<tag, styleDisplay, elValue, innerHTML, elChecked,
                   elDisabled, classList, children>>

-----------------------------------------------------------------------------
(* The host behind the element locator: the tree and its queries.          *)

\* a reference to element e, as a JavaScript value
Ref(e) == [k |-> "element", e |-> e]

RECURSIVE ConcatAll(_)
ConcatAll(ss) == IF ss = <<>> THEN <<>> ELSE Head(ss) \o ConcatAll(Tail(ss))

\* the descendants of node n in document order
RECURSIVE Preorder(_)
Preorder(n) ==
    ConcatAll([i \in 1..Len(children[n]) |->
                  <<children[n][i]>> \o Preorder(children[n][i])])

\* The selectors of the model and what each selects: a class, a tag or an
\* id.  (A string that is no selector makes the host raise a syntax error;
\* no such string is passed.)
Selectors == {".x", "div", "#main", "p"}
SelectorOf(selector) ==
    CASE selector = ".x"    -> [by |-> "class", name |-> "x"]
      [] selector = "div"   -> [by |-> "tag", name |-> "div"]
      [] selector = "#main" -> [by |-> "id", name |-> "main"]
      [] selector = "p"     -> [by |-> "tag", name |-> "p"]

\* element e satisfies the test m
Matches(e, m) ==
    CASE m.by = "class" -> TokenContains(classList[e], m.name)
      [] m.by = "tag"   -> tag[e] = m.name
      [] m.by = "id"    -> attributes[e]["id"] = Str(m.name)

\* the descendants of root that satisfy m, in document order
QueryAll(root, m) == SelectSeq(Preorder(root), LAMBDA e : Matches(e, m))

\* A live HTMLCollection is the query itself: its length and items are
\* those of the document at the moment they are read.
LiveCollection(root, m) == [k |-> "collection", root |-> root, m |-> m]
\* A NodeList from querySelectorAll is static: the matches at call time.
StaticNodeList(root, m) == [k |-> "nodelist", items |-> QueryAll(root, m)]

\* the items of an array, a live collection or a node list, read now
Items(x) ==
    CASE x.k = "array"      -> x.items
      [] x.k = "collection" -> QueryAll(x.root, x.m)
      [] x.k = "nodelist"   -> x.items
      [] OTHER              -> <<>>

\* new Array(list.length), filled by the loop elements[i] = list[i]
ArrayFrom(list) ==
    [k |-> "array", items |-> [i \in 1..Len(Items(list)) |-> Items(list)[i]]]

\* the first match or null: getElementById, querySelector
FirstOrNull(matches) == IF matches = <<>> THEN Null ELSE Ref(Head(matches))

-----------------------------------------------------------------------------
(* Element locator (Dom.ts 13-71).  No method changes the host state.      *)

gebid(id) ==
    /\ ret' = FirstOrNull(QueryAll(Doc, [by |-> "id", name |-> id]))
    /\ UNCHANGED host

\* gebcn returning the host's collection instead of the copy
gebcnLive(className) ==
    /\ ret' = LiveCollection(Doc, [by |-> "class", name |-> className])
    /\ UNCHANGED host

gebcn(className) ==
    /\ LET elementsByClass == LiveCollection(Doc, [by |-> "class", name |-> className])
       IN  ret' = ArrayFrom(elementsByClass)
    /\ UNCHANGED host

gebtn(tagName) ==
    /\ LET elementsByTag == LiveCollection(Doc, [by |-> "tag", name |-> tagName])
       IN  ret' = ArrayFrom(elementsByTag)
    /\ UNCHANGED host

qs(selector, parent) ==
    /\ ret' = FirstOrNull(QueryAll(parent, SelectorOf(selector)))
    /\ UNCHANGED host

qsAll(selector, parent) ==
    /\ LET nodes == StaticNodeList(parent, SelectorOf(selector))
       IN  ret' = ArrayFrom(nodes)
    /\ UNCHANGED host

\* child reading children[index - 1]
childOffByOne(element, index) ==
    /\ ret' = IF index \in 1..Len(children[element])
              THEN Ref(children[element][index])
              ELSE Undefined
    /\ UNCHANGED host

\* element.children[index]: the list is indexed from 0, and an index
\* outside it reads undefined
child(element, index) ==
    /\ ret' = IF index + 1 \in 1..Len(children[element])
              THEN Ref(children[element][index + 1])
              ELSE Undefined
    /\ UNCHANGED host

-----------------------------------------------------------------------------
(* Document mutations made by the caller through the host, between calls.  *)

Without(s, e) == SelectSeq(s, LAMBDA x : x # e)

\* parent.appendChild(e): e leaves its place and becomes parent's last child
HostAppend(parent, e) ==
    /\ e # parent
    /\ parent \notin SetOf(Preorder(e))
    /\ children' = [n \in Nodes |->
                       IF n = parent THEN Append(Without(children[n], e), e)
                       ELSE Without(children[n], e)]
    /\ ret' = Undefined
    /\ UNCHANGED <<tag, styleDisplay, elValue, innerHTML, elChecked, elDisabled,
                   attributes, classList>>

\* e.remove(): e leaves the tree, with its descendants below it
HostRemove(e) ==
    /\ \E n \in Nodes : e \in SetOf(children[n])
    /\ children' = [n \in Nodes |-> Without(children[n], e)]
    /\ ret' = Undefined
    /\ UNCHANGED <<tag, styleDisplay, elValue, innerHTML, elChecked, elDisabled,
                   attributes, classList>>

-----------------------------------------------------------------------------
(* Construction: three elements attached to the document in order.  Each  *)
(* specification below states the host state it starts from.              *)

AttrNames == {"id", "data-x"}
NoCall == [op |-> "none", element |-> "none"]
NoSnap == [by |-> "none", result |-> Undefined, taken |-> <<>>]

TagOf(e) == CASE e = "e1" -> "input" [] e = "e2" -> "select" [] e = "e3" -> "div"

InitHistory ==
    /\ call = NoCall
    /\ ret = Undefined
    /\ pre = Host
    /\ prev = [op |-> "none", element |-> "none"]
    /\ repeat = FALSE
    /\ named = [e \in Elems |-> [c \in ClassNames |-> "none"]]
    /\ initial = classList
    /\ snap = NoSnap

-----------------------------------------------------------------------------
(* Host state at construction, shared by the specifications below: three   *)
(* elements in document order, nothing set.  A specification that starts   *)
(* from other values of a variable says so in its own Init.                *)

TagInit      == tag = [e \in Elems |-> TagOf(e)]
DisplayInit  == styleDisplay = [e \in Elems |-> ""]
ValueInit    == elValue = [e \in Elems |-> IF e = "e2" THEN "a" ELSE ""]
HtmlInit     == innerHTML = [e \in Elems |-> ""]
CheckedInit  == elChecked = [e \in Elems |-> FALSE]
DisabledInit == elDisabled = [e \in Elems |-> FALSE]
AttrInit     == attributes = [e \in Elems |-> [n \in AttrNames |-> Null]]
ClassInit    == classList = [e \in Elems |-> <<>>]
TreeInit     == children = [n \in Nodes |-> IF n = Doc THEN <<"e1", "e2", "e3">> ELSE <<>>]

\* the history of a call c: the call and the host state before it
LogCall(c) ==
    /\ call' = c
    /\ pre' = Host
    /\ UNCHANGED <<prev, repeat, snap>>

\* the same, keeping also the name and element of the call before it, and
\* whether c repeats that call
LogSeq(c) ==
    /\ call' = c
    /\ pre' = Host
    /\ prev' = [op |-> call.op, element |-> call.element]
    /\ repeat' = (c = call)
    /\ UNCHANGED snap

-----------------------------------------------------------------------------
(* SpecClass: calls of the five class methods on two elements with class   *)
(* names a and b, each call logged with its arguments.                     *)

FewNames == {"a", "b"}
FewArgs  == SeqsUpTo(FewNames, MaxArgs)

InitClass ==
    /\ TagInit /\ DisplayInit /\ ValueInit /\ HtmlInit
    /\ CheckedInit /\ DisabledInit /\ AttrInit /\ ClassInit /\ TreeInit
    /\ InitHistory

CallEnsureClass ==
    \E e \in CallElems, cond \in BOOLEAN, cs \in FewArgs :
        /\ ensureClass(e, cond, cs)
        /\ LogSeq([op |-> "ensureClass", element |-> e, cond |-> cond, classNames |-> cs])
        /\ UNCHANGED <<named, initial>>

CallAddClass ==
    \E e \in CallElems, cs \in FewArgs :
        /\ addClass(e, cs)
        /\ LogSeq([op |-> "addClass", element |-> e, classNames |-> cs])
        /\ UNCHANGED <<named, initial>>

CallRemoveClass ==
    \E e \in CallElems, cs \in FewArgs :
        /\ removeClass(e, cs)
        /\ LogSeq([op |-> "removeClass", element |-> e, classNames |-> cs])
        /\ UNCHANGED <<named, initial>>

CallSwapClass ==
    \E e \in CallElems, r \in FewNames, a \in FewNames :
        /\ swapClass(e, r, a)
        /\ LogSeq([op |-> "swapClass", element |-> e, classToRemove |-> r, classToAdd |-> a])
        /\ UNCHANGED <<named, initial>>

CallToggleClass ==
    \E e \in CallElems, c \in FewNames :
        /\ toggleClass(e, c)
        /\ LogSeq([op |-> "toggleClass", element |-> e, className |-> c])
        /\ UNCHANGED <<named, initial>>

NextClass ==
    \/ CallEnsureClass
    \/ CallAddClass
    \/ CallRemoveClass
    \/ CallSwapClass
    \/ CallToggleClass

SpecClass == InitClass /\ [][NextClass]_vars

-----------------------------------------------------------------------------
(* SpecClassHist: the same five methods with class names a, b and c, from  *)
(* a start where e1 already has class a.  Instead of the arguments, the    *)
(* history keeps, per element and class, whether the most recent call      *)
(* that named the class was an adding or a removing one.                   *)

\* named after a call on element e that names the classes in adds as added
\* ones and those in removes as removed ones
NameClasses(e, adds, removes) ==
    [named EXCEPT ![e] = [c \in ClassNames |->
        IF c \in adds THEN "add" ELSE IF c \in removes THEN "remove" ELSE @[c]]]

LogOp(op) ==
    /\ call' = [op |-> op]
    /\ UNCHANGED <<pre, prev, repeat, initial, snap>>

InitClassHist ==
    /\ TagInit /\ DisplayInit /\ ValueInit /\ HtmlInit
    /\ CheckedInit /\ DisabledInit /\ AttrInit /\ TreeInit
    /\ classList = [e \in Elems |-> IF e = "e1" THEN <<"a">> ELSE <<>>]
    /\ InitHistory

HistEnsureClass ==
    \E e \in CallElems, cond \in BOOLEAN, cs \in ClassArgs :
        /\ ensureClass(e, cond, cs)
        /\ named' = IF cond THEN NameClasses(e, SetOf(cs), {})
                    ELSE NameClasses(e, {}, SetOf(cs))
        /\ LogOp("ensureClass")

HistAddClass ==
    \E e \in CallElems, cs \in ClassArgs :
        /\ addClass(e, cs)
        /\ named' = NameClasses(e, SetOf(cs), {})
        /\ LogOp("addClass")

HistRemoveClass ==
    \E e \in CallElems, cs \in ClassArgs :
        /\ removeClass(e, cs)
        /\ named' = NameClasses(e, {}, SetOf(cs))
        /\ LogOp("removeClass")

HistSwapClass ==
    \E e \in CallElems, r \in ClassNames, a \in ClassNames :
        /\ swapClass(e, r, a)
        /\ named' = NameClasses(e, {a}, {r})
        /\ LogOp("swapClass")

HistToggleClass ==
    \E e \in CallElems, c \in ClassNames :
        /\ toggleClass(e, c)
        /\ named' = IF c \in SetOf(classList[e]) THEN NameClasses(e, {}, {c})
                    ELSE NameClasses(e, {c}, {})
        /\ LogOp("toggleClass")

NextClassHist ==
    \/ HistEnsureClass
    \/ HistAddClass
    \/ HistRemoveClass
    \/ HistSwapClass
    \/ HistToggleClass

SpecClassHist == InitClassHist /\ [][NextClassHist]_vars

-----------------------------------------------------------------------------
(* Claims about the class methods.                                         *)

\* C6 as stated: after swapClass(el, classToRemove, classToAdd), for all names
\* (also equal ones), the class list does not contain classToRemove and does
\* contain classToAdd.
C6_SwapAsStated ==
    call.op = "swapClass" =>
        /\ ~TokenContains(classList[call.element], call.classToRemove)
        /\ TokenContains(classList[call.element], call.classToAdd)

\* C6 amended: after swapClass the class list contains classToAdd, and when
\* the two names differ it does not contain classToRemove, whether or not
\* classToRemove was present before; when the names are equal the class is
\* present afterwards.
C6_SwapAmended ==
    call.op = "swapClass" =>
        /\ TokenContains(classList[call.element], call.classToAdd)
        /\ call.classToRemove # call.classToAdd =>
               ~TokenContains(classList[call.element], call.classToRemove)

\* swapClass(el, r, a) with r # a has run on an element that had r and not a
C6_Witness ==
    /\ call.op = "swapClass"
    /\ call.classToRemove # call.classToAdd
    /\ TokenContains(pre.classList[call.element], call.classToRemove)
    /\ ~TokenContains(pre.classList[call.element], call.classToAdd)
    /\ classList[call.element] = <<call.classToAdd>>

\* C7: toggleClass(el, c) adds c when the class list does not contain c and
\* removes it when it does, leaves the membership of every other class and
\* the other elements' class lists alone, and a second identical call
\* restores the class set of before the first.
C7_ToggleRoundTrip ==
    [][call'.op = "toggleClass" =>
        LET e == call'.element
            c == call'.className
        IN  /\ TokenContains(classList'[e], c) <=> ~TokenContains(classList[e], c)
            /\ \A d \in ClassNames \ {c} :
                   TokenContains(classList'[e], d) <=> TokenContains(classList[e], d)
            /\ \A o \in Elems \ {e} : classList'[o] = classList[o]
            /\ (call' = call) => SetOf(classList'[e]) = SetOf(pre.classList[e])
      ]_vars

\* the second of two consecutive toggleClass(el, c) calls has run, on an
\* element that holds another class too
C7_Witness ==
    /\ call.op = "toggleClass"
    /\ repeat
    /\ TokenContains(classList[call.element], call.className)
    /\ Len(classList[call.element]) = 2

\* C10: every class list is duplicate-free, and a class is a member exactly
\* when the most recent call that named it was an adding one or, with no
\* call naming it, when it was a member at construction.  (A call that does
\* not name a class leaves named alone, so it may not change the membership;
\* ensureClass names every ci as added when cond holds, as removed
\* otherwise.)
C10_ClassHistory ==
    \A e \in Elems :
        /\ NoDup(classList[e])
        /\ SetOf(classList[e]) \subseteq ClassNames
        /\ \A c \in ClassNames :
               TokenContains(classList[e], c) <=>
                   \/ named[e][c] = "add"
                   \/ named[e][c] = "none" /\ TokenContains(initial[e], c)

\* ensureClass has run, e1 lost its initial class a to a removing call and
\* has b from an adding one, c was never named on e1, and e2 has c
C10_Witness ==
    /\ call.op = "ensureClass"
    /\ named["e1"]["a"] = "remove" /\ ~TokenContains(classList["e1"], "a")
    /\ named["e1"]["b"] = "add"
    /\ named["e1"]["c"] = "none"
    /\ named["e2"]["c"] = "add"

-----------------------------------------------------------------------------
(* SpecVisible: show, hide and visible on two elements, from any inline    *)
(* display value.                                                          *)

DisplayValues == {"", "none", "block", "inline"}
VisibleArgs   == {Undefined, Bool(TRUE), Bool(FALSE), Null}

InitVisible ==
    /\ TagInit /\ ValueInit /\ HtmlInit
    /\ CheckedInit /\ DisabledInit /\ AttrInit /\ ClassInit /\ TreeInit
    /\ styleDisplay \in [Elems -> DisplayValues]
    /\ styleDisplay["e3"] = ""
    /\ InitHistory

CallShow ==
    \E e \in CallElems :
        /\ show(e)
        /\ LogSeq([op |-> "show", element |-> e])
        /\ UNCHANGED <<named, initial>>

CallHide ==
    \E e \in CallElems :
        /\ hide(e)
        /\ LogSeq([op |-> "hide", element |-> e])
        /\ UNCHANGED <<named, initial>>

CallVisible ==
    \E e \in CallElems, v \in VisibleArgs :
        /\ visible(e, v)
        /\ LogSeq([op |-> "visible", element |-> e, isVisible |-> v])
        /\ UNCHANGED <<named, initial>>

NextVisible ==
    \/ CallShow
    \/ CallHide
    \/ CallVisible

SpecVisible == InitVisible /\ [][NextVisible]_vars

\* C3: visible(el) returns true after show(el) and false after hide(el);
\* visible(el, true) sets display to "block" and returns true,
\* visible(el, false) sets it to "none" and returns false; visible(el) with
\* no state argument leaves every display value as it was and returns true
\* exactly when the element's display is not "none".
C3_Visible ==
    call.op = "visible" =>
        LET e == call.element
        IN  /\ call.isVisible = Bool(TRUE) =>
                   styleDisplay[e] = "block" /\ ret = Bool(TRUE)
            /\ call.isVisible = Bool(FALSE) =>
                   styleDisplay[e] = "none" /\ ret = Bool(FALSE)
            /\ call.isVisible = Undefined =>
                   /\ styleDisplay = pre.styleDisplay
                   /\ ret = Bool(pre.styleDisplay[e] # "none")
                   /\ prev = [op |-> "show", element |-> e] => ret = Bool(TRUE)
                   /\ prev = [op |-> "hide", element |-> e] => ret = Bool(FALSE)
            /\ \A o \in Elems \ {e} : styleDisplay[o] = pre.styleDisplay[o]

\* visible(el) with no state argument has run right after hide(el) and
\* returned false, while the other element has the empty display value
C3_Witness ==
    /\ call.op = "visible" /\ call.isVisible = Undefined
    /\ prev = [op |-> "hide", element |-> call.element]
    /\ ret = Bool(FALSE)
    /\ \E o \in CallElems \ {call.element} : styleDisplay[o] = ""

-----------------------------------------------------------------------------
(* SpecAccess: the six get/set accessors, each on an element of the type   *)
(* its signature asks for (e1 an input, e2 a select, e3 a div), with       *)
(* arguments of every JavaScript type.                                     *)

AnyArgs == {Undefined, Null, Bool(FALSE), Bool(TRUE), Str(""), Str("a"), Str("<b>x")}
               \cup {Num(n) : n \in 0..MaxNumber}

InitAccess ==
    /\ TagInit /\ DisplayInit /\ ValueInit /\ HtmlInit
    /\ CheckedInit /\ DisabledInit /\ AttrInit /\ ClassInit /\ TreeInit
    /\ InitHistory

CallText ==
    \E v \in AnyArgs :
        /\ text("e3", v)
        /\ LogCall([op |-> "text", element |-> "e3", arg |-> v])
        /\ UNCHANGED <<named, initial>>

CallValue ==
    \E e \in {"e1", "e2"}, v \in AnyArgs :
        /\ value(e, v)
        /\ LogCall([op |-> "value", element |-> e, arg |-> v])
        /\ UNCHANGED <<named, initial>>

CallInnerHtml ==
    \E v \in AnyArgs :
        /\ innerHtml("e3", v)
        /\ LogCall([op |-> "innerHtml", element |-> "e3", arg |-> v])
        /\ UNCHANGED <<named, initial>>

CallChecked ==
    \E v \in AnyArgs :
        /\ checked("e1", v)
        /\ LogCall([op |-> "checked", element |-> "e1", arg |-> v])
        /\ UNCHANGED <<named, initial>>

CallDisabled ==
    \E v \in AnyArgs :
        /\ disabled("e1", v)
        /\ LogCall([op |-> "disabled", element |-> "e1", arg |-> v])
        /\ UNCHANGED <<named, initial>>

CallAttribute ==
    \E v \in AnyArgs :
        /\ attribute("e3", "data-x", v)
        /\ LogCall([op |-> "attribute", element |-> "e3", name |-> "data-x", arg |-> v])
        /\ UNCHANGED <<named, initial>>

NextAccess ==
    \/ CallText
    \/ CallValue
    \/ CallInnerHtml
    \/ CallChecked
    \/ CallDisabled
    \/ CallAttribute

SpecAccess == InitAccess /\ [][NextAccess]_vars

\* the accessors
Accessors == {"text", "value", "innerHtml", "checked", "disabled", "attribute"}

\* what a read-mode call of the accessor of call c returns in this state
ReadOf(c) ==
    CASE c.op = "text"      -> Or(TextContent(c.element), Str(""))
      [] c.op = "value"     -> Str(elValue[c.element])
      [] c.op = "innerHtml" -> Str(innerHTML[c.element])
      [] c.op = "checked"   -> Bool(elChecked[c.element])
      [] c.op = "disabled"  -> Bool(elDisabled[c.element])
      [] c.op = "attribute" -> Or(GetAttribute(c.element, c.name), Str(""))

\* the element of call c holds what the host makes of assigning c.arg to
\* the property behind the accessor
HoldsArg(c) ==
    CASE c.op = "text"      -> TextContent(c.element) = Str(String(c.arg))
      [] c.op = "value"     -> elValue[c.element] = ValueAfterSet(c.element, String(c.arg))
      [] c.op = "innerHtml" -> innerHTML[c.element] =
                                   ParseSerialize(IF c.arg.k = "null" THEN "" ELSE String(c.arg))
      [] c.op = "checked"   -> elChecked[c.element] = ~Falsy(c.arg)
      [] c.op = "disabled"  -> elDisabled[c.element] = ~Falsy(c.arg)
      [] c.op = "attribute" -> GetAttribute(c.element, c.name) = Str(String(c.arg))

\* C1 as stated: for every accessor the mode depends only on whether the
\* argument is undefined: undefined is a pure read, and any other value,
\* falsy ones and null too, is written to the element.
C1_ModeAsStated ==
    call.op \in Accessors =>
        IF call.arg = Undefined THEN Host = pre ELSE HoldsArg(call)

\* the arguments with which the accessor of call c writes
WriteMode(c) ==
    CASE c.op \in {"text", "value"}          -> TypeOf(c.arg) # "undefined"
      [] c.op \in {"innerHtml", "attribute"} -> TypeOf(c.arg) = "string"
      [] c.op \in {"checked", "disabled"}    -> TypeOf(c.arg) = "boolean"

\* C1 amended: text and value write every argument other than undefined
\* ("", 0, false and null too, as strings); innerHtml and attribute write
\* exactly the string arguments ("" too), checked and disabled exactly the
\* boolean ones (false too); with any other argument, undefined and null
\* among them, the call is a pure read that leaves the host state unchanged.
C1_ModeAmended ==
    call.op \in Accessors =>
        IF WriteMode(call) THEN HoldsArg(call) ELSE Host = pre

\* checked(el, false) has unchecked a checked control
C1_Witness ==
    /\ call.op = "checked" /\ call.arg = Bool(FALSE)
    /\ pre.elChecked[call.element]
    /\ ~elChecked[call.element]

\* C2: a write-mode call returns what a read-mode call of the same accessor
\* on the same element returns right after it.
C2_WriteReturnsCurrent ==
    (call.op \in Accessors /\ call.arg # Undefined) => ret = ReadOf(call)

-----------------------------------------------------------------------------
(* SpecText: text and innerHtml on the div e3, with more numbers.          *)

TextArgs == AnyArgs \cup {Num(42), Num(-1), Str("0")}

InitText ==
    /\ TagInit /\ DisplayInit /\ ValueInit
    /\ CheckedInit /\ DisabledInit /\ AttrInit /\ ClassInit /\ TreeInit
    /\ innerHTML \in [Elems -> {"", "hi"}]
    /\ innerHTML["e1"] = "" /\ innerHTML["e2"] = ""
    /\ InitHistory

SeqText ==
    \E v \in TextArgs :
        /\ text("e3", v)
        /\ LogSeq([op |-> "text", element |-> "e3", arg |-> v])
        /\ UNCHANGED <<named, initial>>

SeqInnerHtml ==
    \E v \in TextArgs :
        /\ innerHtml("e3", v)
        /\ LogSeq([op |-> "innerHtml", element |-> "e3", arg |-> v])
        /\ UNCHANGED <<named, initial>>

NextText ==
    \/ SeqText
    \/ SeqInnerHtml

SpecText == InitText /\ [][NextText]_vars

\* C4: for every v other than undefined, text(el, v) sets the text content
\* to String(v) and returns String(v), and a text(el) right after it returns
\* String(v); text(el) returns a string, "" when the text content is empty,
\* and changes nothing.
C4_TextRoundTrip ==
    [][call'.op = "text" =>
        LET e == call'.element
            v == call'.arg
        IN  /\ ret'.k = "string"
            /\ v # Undefined =>
                   /\ Str(TextOf(innerHTML'[e])) = Str(String(v))
                   /\ ret' = Str(String(v))
            /\ v = Undefined =>
                   /\ Host' = Host
                   /\ ret' = TextContent(e)
                   /\ (call.op = "text" /\ call.element = e /\ call.arg # Undefined)
                          => ret' = Str(String(call.arg))
      ]_vars

\* text(el) has returned "42" right after a text(el, v) that was a write
C4_Witness ==
    /\ call.op = "text" /\ call.arg = Undefined
    /\ prev = [op |-> "text", element |-> call.element]
    /\ ~repeat
    /\ pre.innerHTML[call.element] = "42"
    /\ ret = Str("42")

-----------------------------------------------------------------------------
(* SpecAttr: attribute on two elements and two attribute names.            *)

AttrArgs == {Undefined, Null, Str(""), Str("v"), Str("w")}

InitAttr ==
    /\ TagInit /\ DisplayInit /\ ValueInit /\ HtmlInit
    /\ CheckedInit /\ DisabledInit /\ AttrInit /\ ClassInit /\ TreeInit
    /\ InitHistory

SeqAttribute ==
    \E e \in CallElems, n \in AttrNames, v \in AttrArgs :
        /\ attribute(e, n, v)
        /\ LogSeq([op |-> "attribute", element |-> e, name |-> n, arg |-> v])
        /\ UNCHANGED <<named, initial>>

NextAttr ==
    \/ SeqAttribute

SpecAttr == InitAttr /\ [][NextAttr]_vars

\* C5: attribute(el, name) returns a string, "" when the element has no
\* such attribute, and creates nothing; for every string v,
\* attribute(el, name, v) stores and returns v, leaves the attributes of
\* other names and of other elements alone, and an attribute(el, name) right
\* after it returns v.
C5_Attribute ==
    [][call'.op = "attribute" =>
        LET e == call'.element
            n == call'.name
            v == call'.arg
        IN  /\ ret'.k = "string"
            /\ TypeOf(v) # "string" =>
                   /\ Host' = Host
                   /\ GetAttribute(e, n) = Null => ret' = Str("")
            /\ TypeOf(v) = "string" =>
                   /\ attributes'[e][n] = v
                   /\ ret' = v
                   /\ \A o \in Elems, m \in AttrNames :
                          <<o, m>> # <<e, n>> => attributes'[o][m] = attributes[o][m]
            /\ ( /\ v = Undefined
                 /\ call.op = "attribute" /\ call.element = e /\ call.name = n
                 /\ TypeOf(call.arg) = "string" )
                   => ret' = call.arg
      ]_vars

\* attribute(el, name) has returned "v" right after a call that set it,
\* while the element's other attribute is absent and the other element has
\* the same name set to "w"
C5_Witness ==
    /\ call.op = "attribute" /\ call.arg = Undefined
    /\ prev = [op |-> "attribute", element |-> call.element]
    /\ ~repeat
    /\ ret = Str("v")
    /\ \E m \in AttrNames \ {call.name} : attributes[call.element][m] = Null
    /\ \E o \in CallElems \ {call.element} : attributes[o][call.name] = Str("w")

-----------------------------------------------------------------------------
(* SpecLookup: the six lookups on a document of two divs and a span whose  *)
(* tree and classes the caller changes between the calls.                  *)

Ids        == {"main", "nope"}
LookupTags == {"div", "span", "p"}
LookupClasses == {"x", "none"}

InitLookup ==
    /\ tag = [e \in Elems |-> IF e = "e3" THEN "span" ELSE "div"]
    /\ DisplayInit /\ ValueInit /\ HtmlInit /\ CheckedInit /\ DisabledInit
    /\ attributes = [e \in Elems |-> [n \in AttrNames |->
                        IF e = "e1" /\ n = "id" THEN Str("main") ELSE Null]]
    /\ classList = [e \in Elems |-> IF e = "e1" THEN <<>> ELSE <<"x">>]
    /\ TreeInit
    /\ InitHistory

CallGebid ==
    \E id \in Ids :
        /\ gebid(id)
        /\ LogCall([op |-> "gebid", element |-> Doc, arg |-> id])
        /\ UNCHANGED <<named, initial>>

CallGebcn ==
    \E c \in LookupClasses :
        /\ gebcn(c)
        /\ LogCall([op |-> "gebcn", element |-> Doc, arg |-> c])
        /\ UNCHANGED <<named, initial>>

CallGebtn ==
    \E t \in LookupTags :
        /\ gebtn(t)
        /\ LogCall([op |-> "gebtn", element |-> Doc, arg |-> t])
        /\ UNCHANGED <<named, initial>>

CallQs ==
    \E sel \in Selectors, parent \in {Doc, "e1"} :
        /\ qs(sel, parent)
        /\ LogCall([op |-> "qs", element |-> parent, arg |-> sel])
        /\ UNCHANGED <<named, initial>>

CallQsAll ==
    \E sel \in Selectors, parent \in {Doc, "e1"} :
        /\ qsAll(sel, parent)
        /\ LogCall([op |-> "qsAll", element |-> parent, arg |-> sel])
        /\ UNCHANGED <<named, initial>>

CallChild ==
    \E e \in {"e1", "e2"}, index \in (-1)..MaxIndex :
        /\ child(e, index)
        /\ LogCall([op |-> "child", element |-> e, index |-> index])
        /\ UNCHANGED <<named, initial>>

MutateAppend ==
    \E parent \in {Doc, "e1", "e2"}, e \in Elems :
        /\ HostAppend(parent, e)
        /\ LogCall([op |-> "appendChild", element |-> e])
        /\ UNCHANGED <<named, initial>>

MutateRemove ==
    \E e \in Elems :
        /\ HostRemove(e)
        /\ LogCall([op |-> "remove", element |-> e])
        /\ UNCHANGED <<named, initial>>

MutateAddClass ==
    \E e \in Elems :
        /\ addClass(e, <<"x">>)
        /\ LogCall([op |-> "addClass", element |-> e])
        /\ UNCHANGED <<named, initial>>

MutateRemoveClass ==
    \E e \in Elems :
        /\ removeClass(e, <<"x">>)
        /\ LogCall([op |-> "removeClass", element |-> e])
        /\ UNCHANGED <<named, initial>>

NextLookup ==
    \/ CallGebid
    \/ CallGebcn
    \/ CallGebtn
    \/ CallQs
    \/ CallQsAll
    \/ CallChild
    \/ MutateAppend
    \/ MutateRemove
    \/ MutateAddClass
    \/ MutateRemoveClass

SpecLookup == InitLookup /\ [][NextLookup]_vars

Lookups    == {"gebid", "gebcn", "gebtn", "qs", "qsAll", "child"}

\* the lookup of call c finds nothing in the document as it is now
NothingFound(c) ==
    CASE c.op = "gebid" -> QueryAll(Doc, [by |-> "id", name |-> c.arg]) = <<>>
      [] c.op = "gebcn" -> QueryAll(Doc, [by |-> "class", name |-> c.arg]) = <<>>
      [] c.op = "gebtn" -> QueryAll(Doc, [by |-> "tag", name |-> c.arg]) = <<>>
      [] c.op \in {"qs", "qsAll"} -> QueryAll(c.element, SelectorOf(c.arg)) = <<>>
      [] c.op = "child" -> ~(c.index >= 0 /\ c.index < Len(children[c.element]))

\* C9: a lookup changes no host state, and one that finds nothing returns
\* its not-found value: null from gebid and qs, undefined from child for an
\* index outside the child list, and an array of length 0 from gebcn, gebtn
\* and qsAll, which return an array in every case.
C9_NotFound ==
    call.op \in Lookups =>
        /\ Host = pre
        /\ call.op \in {"gebcn", "gebtn", "qsAll"} => ret.k = "array"
        /\ NothingFound(call) =>
               CASE call.op \in {"gebid", "qs"} -> ret = Null
                 [] call.op = "child" -> ret = Undefined
                 [] OTHER -> Len(ret.items) = 0

\* gebcn("x") has returned an empty array after the caller took class x off
\* every element that had it
C9_Witness ==
    /\ call.op = "gebcn" /\ call.arg = "x"
    /\ ret = [k |-> "array", items |-> <<>>]
    /\ \A e \in Elems : ~TokenContains(classList[e], "x")
    /\ Len(Preorder(Doc)) = 3

-----------------------------------------------------------------------------
(* SpecSnapshot: the three array-returning lookups on the same document,   *)
(* with the same mutations.  The history keeps the last array returned     *)
(* and, beside it, the matches the host had at the time of the call.       *)

LogSnapshot(op, root, m) ==
    /\ call' = [op |-> op]
    /\ snap' = [by |-> op, root |-> root, m |-> m, result |-> ret',
                taken |-> QueryAll(root, m)]
    /\ UNCHANGED <<pre, prev, repeat, named, initial>>

SnapGebcn ==
    \E c \in LookupClasses :
        /\ gebcn(c)
        /\ LogSnapshot("gebcn", Doc, [by |-> "class", name |-> c])

SnapGebtn ==
    \E t \in LookupTags :
        /\ gebtn(t)
        /\ LogSnapshot("gebtn", Doc, [by |-> "tag", name |-> t])

SnapQsAll ==
    \E sel \in Selectors, parent \in {Doc, "e1"} :
        /\ qsAll(sel, parent)
        /\ LogSnapshot("qsAll", parent, SelectorOf(sel))

LaterAppend ==
    \E parent \in {Doc, "e1", "e2"}, e \in Elems :
        /\ HostAppend(parent, e)
        /\ LogOp("appendChild")
        /\ UNCHANGED named

LaterRemove ==
    \E e \in Elems :
        /\ HostRemove(e)
        /\ LogOp("remove")
        /\ UNCHANGED named

LaterAddClass ==
    \E e \in Elems :
        /\ addClass(e, <<"x">>)
        /\ LogOp("addClass")
        /\ UNCHANGED named

LaterRemoveClass ==
    \E e \in Elems :
        /\ removeClass(e, <<"x">>)
        /\ LogOp("removeClass")
        /\ UNCHANGED named

NextSnapshot ==
    \/ SnapGebcn
    \/ SnapGebtn
    \/ SnapQsAll
    \/ LaterAppend
    \/ LaterRemove
    \/ LaterAddClass
    \/ LaterRemoveClass

SpecSnapshot == InitLookup /\ [][NextSnapshot]_vars

Mutations == {"appendChild", "remove", "addClass", "removeClass"}

\* C8: the value gebcn, gebtn and qsAll returned is an array whose items,
\* read now, after any mutations of the document since the call, are the
\* matches of the time of the call, in their document order then.
C8_Snapshot ==
    snap.by # "none" => Items(snap.result) = snap.taken

\* after gebcn returned two elements, the caller has changed the document
\* so that the host's matches for the same class are no longer those two
C8_Witness ==
    /\ snap.by = "gebcn"
    /\ Len(snap.taken) = 2
    /\ call.op \in Mutations
    /\ QueryAll(snap.root, snap.m) # snap.taken
    /\ Items(snap.result) = snap.taken

=============================================================================
